---- MODULE Spec2Model ----
(***************************************************************************)
(* Chat subsystem of the Digital Campus Network: the relational store      *)
(* (chat_rooms, chat_participants, connections, messages, message_reads)   *)
(* with its row-level-security policies and trigger, and the client        *)
(* handlers that read and write it (ProfileView.handleMessage,             *)
(* Connections.handleAccept/handleReject, ChatInterface.loadMessages,      *)
(* the realtime INSERT handler and handleSend).                            *)
(*                                                                         *)
(* A client handler is a sequence of awaited store calls; every await is   *)
(* one step, so handlers of different users interleave at the awaits.      *)
(* auth.uid() is the first parameter (uid) of every policy operator.       *)
(***************************************************************************)
EXTENDS Integers, Sequences, FiniteSets, Bags, TLC

(* ------------------------------ bounds -------------------------------- *)
Users == {"a", "b", "c"}
NULL == "null"
\* users who press the Message button on each other's profile
ClickPairs == {<<"a", "b">>, <<"b", "a">>}
\* connection requests that are sent (requester, receiver)
ConnectPairs == {<<"a", "b">>, <<"b", "a">>}
MaxRooms == 3
\* users that have a ChatInterface open at the same time
MaxViewers == 1
\* users who write to messages and message_reads without the ChatInterface
RowWriters == {"a"}
\* users who type and send in the ChatInterface
FormUsers == {"a"}
\* rooms in the runs that exchange messages (the campus room and one more)
MaxChatRooms == 2
MaxMessages == 2
\* row-level inserts into and deletes from chat_participants
MaxMembershipOps == 2
\* the same, in the runs that exchange messages
MaxChatMembershipOps == 1
\* updates of one connections row
MaxUpdates == 2
\* calls of handleSend by one user
MaxSends == 2
\* handleTyping calls of one user that have not finished
MaxTyping == 2
\* updates of chat_rooms rows
MaxRoomUpdates == 2

(* ----------------------------- constants ------------------------------ *)
ALLOWED_FILE_TYPES ==
    {"image/jpeg", "image/png", "image/gif", "image/webp", "application/pdf"}
MAX_FILE_SIZE == 10 * 1024 * 1024
MAX_MESSAGE_LENGTH == 5000

\* file: null, and fileUrl: null
NoFile == [type |-> NULL, size |-> 0]
NoObject == <<NULL, 0>>
\* a text is its length and whether trim() leaves nothing of it
NoText == [len |-> 0, blank |-> TRUE]
\* the content of a row written without the ChatInterface
RowText == [len |-> 1, blank |-> FALSE]
\* what the user types into the input
DraftTexts ==
    {NoText,
     [len |-> MAX_MESSAGE_LENGTH, blank |-> FALSE],
     [len |-> MAX_MESSAGE_LENGTH + 1, blank |-> FALSE],
     [len |-> MAX_MESSAGE_LENGTH + 1, blank |-> TRUE]}
\* what the user picks in the file dialog (the accept attribute does not bind)
DraftFiles ==
    {[type |-> "image/png", size |-> MAX_FILE_SIZE],
     [type |-> "image/png", size |-> MAX_FILE_SIZE + 1],
     [type |-> "application/zip", size |-> 1]}

VARIABLES
    chat_rooms,         \* sequence of rows; the row id is the index
    chat_participants,  \* set of <<chat_room_id, user_id>>
    connections,        \* <<requester_id, receiver_id>> -> [status, updated_at]
    messages,           \* set of rows [id, chat_room_id, sender_id, content,
                        \*   file_url, uid]; uid is who issued the insert
    message_reads,      \* bag of rows <<message_id, user_id>>
    nextMessageId,      \* ids and created_at grow together
    hm,                 \* per user: the running ProfileView.handleMessage
    view,               \* per user: the mounted ChatInterface
    subs,               \* per user: rooms with a messages:<room> channel
    inbox,              \* per user: INSERT events not yet handled
    membershipOps,      \* number of row-level chat_participants writes
    draft,              \* per user: newMessage and file of the ChatInterface
    sends,              \* per user: the calls of handleSend, in order of call
    storage,            \* objects of bucket chat-attachments: <<folder, n>>
    presence,           \* per user: the typing flag last published
    typingTimeoutRef,   \* per user: a timer of handleTyping is pending
    ht,                 \* per user: handleTyping calls before and after track
    cc,                 \* per user: CampusChat and its initializeCampusChat
    deleted,            \* the deletes of messages rows: [id, sender_id, by, reads]
    om,                 \* per user: the OpenMessages page and its startChat
    roomUpdates         \* the updates of chat_rooms issued: [uid, id, type]

roomVars == <<chat_rooms, chat_participants, connections>>
chatStore == <<messages, message_reads, nextMessageId>>
chatClient == <<view, subs, inbox>>
sendVars == <<draft, sends, storage>>
typingVars == <<presence, typingTimeoutRef, ht>>
formVars == <<draft, sends, storage, presence, typingTimeoutRef, ht>>
vars == <<chat_rooms, chat_participants, connections, messages, message_reads,
          nextMessageId, hm, view, subs, inbox, membershipOps,
          draft, sends, storage, presence, typingTimeoutRef, ht, cc, deleted, om, roomUpdates>>

RoomIds == DOMAIN chat_rooms

(* --------------------- security definer functions --------------------- *)
user_can_access_chat_room(_user_id, _room_id) ==
    <<_room_id, _user_id>> \in chat_participants

is_open_or_campus_room(_room_id) ==
    /\ _room_id \in RoomIds
    /\ chat_rooms[_room_id].type \in {"campus", "open"}

(* ------------------------------ policies ------------------------------ *)
\* chat_rooms.type TEXT CHECK (type IN ('campus', 'direct'))
chat_rooms_type_check(type) == type \in {"campus", "direct"}

UsersCanCreateChatRooms(uid, created_by) == uid = created_by

\* (variant) an UPDATE policy for the creator of the room
UsersCanUpdateChatRooms_Creator(uid, id) == chat_rooms[id].created_by = uid

\* chat_rooms has row level security enabled and policies FOR SELECT and FOR
\* INSERT only: no policy passes an UPDATE
UsersCanUpdateChatRooms(uid, id) == FALSE

UsersCanViewAccessibleChatRooms(uid, id) ==
    \/ chat_rooms[id].type \in {"campus", "open"}
    \/ user_can_access_chat_room(uid, id)

UsersCanViewParticipants(uid, chat_room_id) ==
    \/ is_open_or_campus_room(chat_room_id)
    \/ user_can_access_chat_room(uid, chat_room_id)

IsCreatorOfDirectRoom(uid, chat_room_id) ==
    /\ chat_room_id \in RoomIds
    /\ chat_rooms[chat_room_id].type = "direct"
    /\ chat_rooms[chat_room_id].created_by = uid

\* (variant) "Users can join chats" without auth.uid() = user_id
UsersCanJoinChats_ForAnyone(uid, chat_room_id, user_id) ==
    \/ is_open_or_campus_room(chat_room_id)
    \/ user_can_access_chat_room(uid, chat_room_id)
    \/ IsCreatorOfDirectRoom(uid, chat_room_id)

UsersCanJoinChats(uid, chat_room_id, user_id) ==
    /\ uid = user_id
    /\ \/ is_open_or_campus_room(chat_room_id)
       \/ user_can_access_chat_room(uid, chat_room_id)
       \/ IsCreatorOfDirectRoom(uid, chat_room_id)

RoomCreatorsCanAddParticipants(uid, chat_room_id) ==
    IsCreatorOfDirectRoom(uid, chat_room_id)

\* permissive INSERT policies are OR-ed; UNIQUE(chat_room_id, user_id)
ParticipantInsertAccepted(uid, chat_room_id, user_id) ==
    /\ chat_room_id \in RoomIds
    /\ \/ UsersCanJoinChats(uid, chat_room_id, user_id)
       \/ RoomCreatorsCanAddParticipants(uid, chat_room_id)
    /\ <<chat_room_id, user_id>> \notin chat_participants

UsersCanLeaveChats(uid, user_id) == uid = user_id

UsersCanUpdateTheirConnections(uid, c) == uid = c[1] \/ uid = c[2]

\* mutant: the SELECT policy without the room-type branch
UsersCanViewMessages_ParticipantOnly(uid, chat_room_id) ==
    user_can_access_chat_room(uid, chat_room_id)

\* mutant: the SELECT policy without the participant branch
UsersCanViewMessages_TypeOnly(uid, chat_room_id) ==
    is_open_or_campus_room(chat_room_id)

UsersCanViewMessages(uid, chat_room_id) ==
    \/ is_open_or_campus_room(chat_room_id)
    \/ user_can_access_chat_room(uid, chat_room_id)

\* mutant: the INSERT policy without the room test
UsersCanSendMessages_AnyRoom(uid, chat_room_id, sender_id) ==
    uid = sender_id

UsersCanSendMessages(uid, chat_room_id, sender_id) ==
    /\ uid = sender_id
    /\ \/ is_open_or_campus_room(chat_room_id)
       \/ user_can_access_chat_room(uid, chat_room_id)

\* (variant) any authenticated user may delete any message
UsersCanDeleteOwnMessages_Anyone(uid, sender_id) == uid \in Users

UsersCanDeleteOwnMessages(uid, sender_id) == uid = sender_id

\* "Users can view read receipts for accessible messages": messages joined with
\* chat_participants on the room, for the row of auth.uid()
UsersCanViewReadReceipts(uid, message_id) ==
    \E m \in messages :
        /\ m.id = message_id
        /\ UsersCanViewMessages(uid, m.chat_room_id)
        /\ <<m.chat_room_id, uid>> \in chat_participants

UsersCanMarkMessagesAsRead(uid, user_id) == uid = user_id

(* ------------------------------ queries ------------------------------- *)
\* from chat_participants select user_id where chat_room_id = room, as uid
SelectParticipants(uid, room) ==
    {u \in Users : <<room, u>> \in chat_participants
                   /\ UsersCanViewParticipants(uid, room)}

\* from chat_participants select chat_room_id, chat_rooms!inner(type)
\* where user_id = uid, as uid
SelectOwnRooms(uid) ==
    {r \in RoomIds : /\ <<r, uid>> \in chat_participants
                     /\ UsersCanViewParticipants(uid, r)
                     /\ UsersCanViewAccessibleChatRooms(uid, r)}

Participants(room) == {u \in Users : <<room, u>> \in chat_participants}

MessageIds == {m.id : m \in messages}

MessageRow(id) == CHOOSE m \in messages : m.id = id

\* the receipts of a message that uid is shown: reads:message_reads(user_id)
SelectReads(uid, message_id) ==
    {u \in Users : /\ BagIn(<<message_id, u>>, message_reads)
                   /\ UsersCanViewReadReceipts(uid, message_id)}

RECURSIVE Ascending(_)
\* order('created_at', { ascending: true }): ids grow with created_at
Ascending(ids) ==
    IF ids = {} THEN << >>
    ELSE LET least == CHOOSE i \in ids : \A j \in ids : i <= j
         IN  <<least>> \o Ascending(ids \ {least})

Annotated(uid, id) ==
    [id |-> id, sender_id |-> MessageRow(id).sender_id, reads |-> SelectReads(uid, id)]

\* the query of loadMessages for room roomId, as uid
SelectMessages(uid, roomId) ==
    LET ids == {m.id : m \in {x \in messages :
                                 /\ x.chat_room_id = roomId
                                 /\ UsersCanViewMessages(uid, x.chat_room_id)}}
        sorted == Ascending(ids)
    IN  [i \in 1..Len(sorted) |-> Annotated(uid, sorted[i])]

\* mutant: the filter with the sender test inverted
Unread_OwnMessages(data, currentUserId) ==
    LET own == SelectSeq(data, LAMBDA msg : /\ msg.sender_id = currentUserId
                                            /\ currentUserId \notin msg.reads)
    IN  [i \in 1..Len(own) |-> own[i].id]

RECURSIVE Unread(_, _)
\* data.filter(msg => msg.sender_id !== currentUserId && !msg.reads.some(...))
Unread(data, currentUserId) ==
    IF data = << >> THEN << >>
    ELSE LET msg == Head(data)
         IN  (IF msg.sender_id # currentUserId /\ currentUserId \notin msg.reads
                 THEN <<msg.id>> ELSE << >>) \o Unread(Tail(data), currentUserId)

(* ------------------------- message_reads insert ----------------------- *)
\* message_id REFERENCES messages(id), UNIQUE(message_id, user_id), and the
\* policy "Users can mark messages as read"
\* mutant: the table without UNIQUE(message_id, user_id)
ReadInsertAccepted_NoUnique(uid, message_id, user_id) ==
    /\ UsersCanMarkMessagesAsRead(uid, user_id)
    /\ message_id \in MessageIds

ReadInsertAccepted(uid, message_id, user_id) ==
    /\ UsersCanMarkMessagesAsRead(uid, user_id)
    /\ message_id \in MessageIds
    /\ ~BagIn(<<message_id, user_id>>, message_reads)

\* the table after supabase.from('message_reads').insert(...); the caller
\* does not look at the result
ReadsAfterInsert(uid, message_id, user_id) ==
    IF ReadInsertAccepted(uid, message_id, user_id)
       THEN message_reads (+) SetToBag({<<message_id, user_id>>})
       ELSE message_reads

(* ------------------------------- state -------------------------------- *)
\* seen: number of chat_rooms rows when the lookup loop ended without a match
HmIdle == [pc |-> "idle", id |-> NULL, seen |-> 0, newRoom |-> 0,
           navigated |-> 0, toast |-> NULL]

\* messages: the React state; unread: what is left of the marking loop;
\* data: the answer of the select, on its way to the client;
\* denied: the query ran on a direct room the viewer is no participant of
\* dupe: a receipt insert of this view was rejected by UNIQUE(message_id, user_id)
\* mounted: the rooms whose channel was opened by the component now mounted
NoView == [pc |-> "none", roomId |-> 0, messages |-> << >>, data |-> << >>,
           unread |-> << >>, mounted |-> {},
           loaded |-> {}, denied |-> FALSE, dupe |-> FALSE, toast |-> NULL]

\* existingRoom, campusRoomId: 0 is null; fault: a request of the call failed;
\* toast: the notification shown by the page (no statement of it shows one)
CcIdle == [pc |-> "idle", existingRoom |-> 0, campusRoomId |-> 0, fault |-> FALSE,
           toast |-> NULL]

\* chatRooms: the list of loadChatRooms, rows [id, otherUser]; selectedRoom and
\* newRoom: 0 is null; fault: a request of the running startChat failed;
\* listFault: a query of loadChatRooms failed
OmIdle == [pc |-> "idle", student |-> NULL, newRoom |-> 0, selectedRoom |-> 0,
           chatRooms |-> {}, toast |-> NULL, fault |-> FALSE, listFault |-> FALSE]

\* the form of a ChatInterface; calls: the handleSend calls made since the
\* draft was last changed (they captured the same newMessage and file)
NoDraft == [newMessage |-> NoText, file |-> NoFile, calls |-> {}]

Init ==
    \* the seed row: 'Campus General Chat', 'campus', created_by NULL
    /\ chat_rooms = << [type |-> "campus", created_by |-> NULL] >>
    /\ chat_participants = {}
    /\ connections = << >>
    /\ messages = {}
    /\ message_reads = EmptyBag
    /\ nextMessageId = 1
    /\ hm = [u \in Users |-> HmIdle]
    /\ view = [u \in Users |-> NoView]
    /\ subs = [u \in Users |-> {}]
    /\ inbox = [u \in Users |-> {}]
    /\ membershipOps = 0
    /\ draft = [u \in Users |-> NoDraft]
    /\ sends = [u \in Users |-> << >>]
    /\ storage = {}
    /\ presence = [u \in Users |-> FALSE]
    /\ typingTimeoutRef = [u \in Users |-> FALSE]
    /\ ht = [u \in Users |-> [awaiting |-> 0, tracked |-> 0]]
    /\ cc = [u \in Users |-> CcIdle]
    /\ deleted = {}
    /\ om = [u \in Users |-> OmIdle]
    /\ roomUpdates = {}

(* ----------------------------- connections ---------------------------- *)
\* ProfileView.handleConnect: insert a pending request
handleConnect(u, v) ==
    /\ <<u, v>> \in ConnectPairs
    \* UNIQUE(requester_id, receiver_id): a second request is rejected
    /\ <<u, v>> \notin DOMAIN connections
    /\ connections' = [p \in DOMAIN connections \cup {<<u, v>>} |->
                         IF p = <<u, v>> THEN [status |-> "pending", updated_at |-> 0]
                                         ELSE connections[p]]
    /\ UNCHANGED <<chat_rooms, chat_participants, hm, membershipOps>>
    /\ UNCHANGED <<chatStore, chatClient>>
    /\ UNCHANGED <<formVars, cc, deleted, om, roomUpdates>>

\* mutant: the test without its OLD.status half
TriggerCreatesRoom_NoOldTest(old, new) == new = "accepted"

\* the test of create_dm_chat_room: NEW.status = 'accepted' AND
\* (OLD.status IS NULL OR OLD.status != 'accepted')
TriggerCreatesRoom(old, new) == new = "accepted" /\ old # "accepted"

\* update connections set status where id = c, issued by uid; the triggers
\* update_connections_updated_at (time counted in updates of the row) and
\* on_connection_accepted run in the transaction of the update
UpdateConnectionStatus(uid, c, status) ==
    /\ c \in DOMAIN connections
    /\ UsersCanUpdateTheirConnections(uid, c)
    /\ connections[c].updated_at < MaxUpdates
    /\ connections' = [connections EXCEPT ![c] =
                         [status |-> status, updated_at |-> @.updated_at + 1]]
    /\ IF TriggerCreatesRoom(connections[c].status, status)
          THEN /\ Len(chat_rooms) < MaxRooms
               /\ chat_rooms' = Append(chat_rooms,
                                       [type |-> "direct", created_by |-> c[1]])
               /\ chat_participants' = chat_participants \cup
                     {<<Len(chat_rooms) + 1, c[1]>>, <<Len(chat_rooms) + 1, c[2]>>}
          ELSE UNCHANGED <<chat_rooms, chat_participants>>
    /\ UNCHANGED <<hm, membershipOps, chatStore, chatClient>>
    /\ UNCHANGED <<formVars, cc, deleted, om, roomUpdates>>

handleAccept(uid, c) == UpdateConnectionStatus(uid, c, "accepted")

handleReject(uid, c) == UpdateConnectionStatus(uid, c, "rejected")

(* ----------------------- ProfileView.handleMessage -------------------- *)
\* the rooms the lookup loop can stop at: rows come in no specified order, so
\* any room of the caller that passes the test of the loop may be the first
findDirectRoom(s, id) ==
    {room \in SelectOwnRooms(s) :
        LET participants == SelectParticipants(s, room) IN
        Cardinality(participants) = 2 /\ id \in participants}

\* the lookup part of handleMessage: the query for the caller's rooms and the loop
HM_Find(s, id) ==
    /\ <<s, id>> \in ClickPairs
    /\ hm[s].pc \in {"idle", "done"}
    /\ IF findDirectRoom(s, id) # {}
          THEN \E room \in findDirectRoom(s, id) :
                 hm' = [hm EXCEPT ![s] = [HmIdle EXCEPT !.pc = "done", !.id = id,
                                                        !.navigated = room]]
          ELSE hm' = [hm EXCEPT ![s] = [HmIdle EXCEPT !.pc = "create", !.id = id,
                                                      !.seen = Len(chat_rooms)]]
    /\ UNCHANGED <<roomVars, membershipOps, chatStore, chatClient>>
    /\ UNCHANGED <<formVars, cc, deleted, om, roomUpdates>>

HM_CreateRoom(s) ==
    /\ hm[s].pc = "create"
    /\ Len(chat_rooms) < MaxRooms
    /\ \E ok \in BOOLEAN :
         IF /\ ok
            /\ UsersCanCreateChatRooms(s, s)
            /\ chat_rooms_type_check("direct")
            THEN /\ chat_rooms' = Append(chat_rooms,
                                         [type |-> "direct", created_by |-> s])
                 /\ hm' = [hm EXCEPT ![s].pc = "add",
                                     ![s].newRoom = Len(chat_rooms) + 1]
            ELSE /\ hm' = [hm EXCEPT ![s].pc = "done",
                                     ![s].toast = "Failed to create chat room"]
                 /\ UNCHANGED chat_rooms
    /\ UNCHANGED <<chat_participants, connections, membershipOps>>
    /\ UNCHANGED <<chatStore, chatClient>>
    /\ UNCHANGED <<formVars, cc, deleted, om, roomUpdates>>

\* (variant) the page is opened on the new room whatever the insert answers
HM_AddParticipants_NavigatesAnyway(s) ==
    /\ hm[s].pc = "add"
    /\ \E ok \in BOOLEAN :
         LET room == hm[s].newRoom IN
         IF /\ ok
            /\ ParticipantInsertAccepted(s, room, s)
            /\ ParticipantInsertAccepted(s, room, hm[s].id)
            THEN /\ chat_participants' = chat_participants \cup
                                           {<<room, s>>, <<room, hm[s].id>>}
                 /\ hm' = [hm EXCEPT ![s].pc = "done", ![s].navigated = room]
            ELSE /\ hm' = [hm EXCEPT ![s].pc = "done", ![s].navigated = room,
                                     ![s].toast = "Failed to add participants"]
                 /\ UNCHANGED chat_participants
    /\ UNCHANGED <<chat_rooms, connections, membershipOps>>
    /\ UNCHANGED <<chatStore, chatClient>>
    /\ UNCHANGED <<formVars, cc, deleted, om, roomUpdates>>

HM_AddParticipants(s) ==
    /\ hm[s].pc = "add"
    /\ \E ok \in BOOLEAN :
         LET room == hm[s].newRoom IN
         IF /\ ok
            /\ ParticipantInsertAccepted(s, room, s)
            /\ ParticipantInsertAccepted(s, room, hm[s].id)
            THEN /\ chat_participants' = chat_participants \cup
                                           {<<room, s>>, <<room, hm[s].id>>}
                 /\ hm' = [hm EXCEPT ![s].pc = "done", ![s].navigated = room]
            ELSE /\ hm' = [hm EXCEPT ![s].pc = "done",
                                     ![s].toast = "Failed to add participants"]
                 /\ UNCHANGED chat_participants
    /\ UNCHANGED <<chat_rooms, connections, membershipOps>>
    /\ UNCHANGED <<chatStore, chatClient>>
    /\ UNCHANGED <<formVars, cc, deleted, om, roomUpdates>>

(* --------------------- chat_participants, row level ------------------- *)
\* insert into chat_participants (chat_room_id, user_id) issued by uid
JoinChat(uid, chat_room_id, user_id) ==
    /\ ParticipantInsertAccepted(uid, chat_room_id, user_id)
    /\ chat_participants' = chat_participants \cup {<<chat_room_id, user_id>>}
    /\ membershipOps' = membershipOps + 1
    /\ UNCHANGED <<chat_rooms, connections, hm, chatStore, chatClient>>
    /\ UNCHANGED <<formVars, cc, deleted, om, roomUpdates>>

\* delete from chat_participants where chat_room_id, user_id, issued by uid
LeaveChat(uid, chat_room_id, user_id) ==
    /\ <<chat_room_id, user_id>> \in chat_participants
    /\ UsersCanLeaveChats(uid, user_id)
    /\ chat_participants' = chat_participants \ {<<chat_room_id, user_id>>}
    /\ membershipOps' = membershipOps + 1
    /\ UNCHANGED <<chat_rooms, connections, hm, chatStore, chatClient>>
    /\ UNCHANGED <<formVars, cc, deleted, om, roomUpdates>>

(* ------------------------------ messages ------------------------------ *)
\* the realtime service hands an INSERT on messages to the channels of the
\* room, for the subscribers whose SELECT policy passes on the row
Notified(chat_room_id) ==
    {u \in Users : chat_room_id \in subs[u] /\ UsersCanViewMessages(u, chat_room_id)}

\* insert into messages (chat_room_id, sender_id, content, file_url) issued by uid
InsertMessage(uid, chat_room_id, sender_id, content, file_url) ==
    /\ messages' = messages \cup
          {[id |-> nextMessageId, chat_room_id |-> chat_room_id,
            sender_id |-> sender_id, content |-> content,
            file_url |-> file_url, uid |-> uid]}
    /\ nextMessageId' = nextMessageId + 1
    /\ inbox' = [u \in Users |-> IF u \in Notified(chat_room_id)
                                    THEN inbox[u] \cup {nextMessageId}
                                    ELSE inbox[u]]
    /\ UNCHANGED message_reads

\* a request to the messages table with a sender_id of the caller's choosing
InsertMessageRow(uid, chat_room_id, sender_id) ==
    /\ nextMessageId <= MaxMessages
    /\ UsersCanSendMessages(uid, chat_room_id, sender_id)
    /\ InsertMessage(uid, chat_room_id, sender_id, RowText, NoObject)
    /\ UNCHANGED <<roomVars, hm, membershipOps, view, subs>>
    /\ UNCHANGED <<formVars, cc, deleted, om, roomUpdates>>


\* delete from messages where id = id, issued by uid: the row is deleted if the
\* DELETE policy passes on it (message_reads rows cascade), and no row is
\* touched otherwise
DeleteMessage(uid, id) ==
    /\ id \in MessageIds
    /\ IF UsersCanDeleteOwnMessages(uid, MessageRow(id).sender_id)
          THEN /\ messages' = messages \ {MessageRow(id)}
               /\ message_reads' = message_reads (-)
                     [r \in {x \in BagToSet(message_reads) : x[1] = id} |-> 1]
               /\ deleted' = deleted \cup
                     {[id |-> id, sender_id |-> MessageRow(id).sender_id, by |-> uid,
                       reads |-> {x[2] : x \in {y \in BagToSet(message_reads) :
                                                  y[1] = id}}]}
          ELSE UNCHANGED <<messages, message_reads, deleted>>
    /\ UNCHANGED <<roomVars, hm, membershipOps, nextMessageId, chatClient>>
    /\ UNCHANGED <<formVars, cc, om, roomUpdates>>

\* insert into message_reads (message_id, user_id) issued by uid: a request
\* made under the table's INSERT policy, without the ChatInterface
MarkReadRow(uid, message_id, user_id) ==
    /\ ReadInsertAccepted(uid, message_id, user_id)
    /\ message_reads' = ReadsAfterInsert(uid, message_id, user_id)
    /\ UNCHANGED <<roomVars, hm, membershipOps, messages, nextMessageId, chatClient>>
    /\ UNCHANGED <<formVars, cc, deleted, om, roomUpdates>>

(* ---------------------------- ChatInterface --------------------------- *)
\* DirectMessages hands a new roomId to the ChatInterface it has mounted;
\* between the pages (CampusChat, DirectMessages) the component is mounted anew
SameComponent(u, roomId) ==
    /\ view[u].pc # "none"
    /\ chat_rooms[view[u].roomId].type = "direct"
    /\ chat_rooms[roomId].type = "direct"

\* useEffect([roomId]): the component is shown for a room (DirectMessages
\* takes the room from ?room=, CampusChat from the campus lookup); a
\* component that stays mounted keeps its messages state
OpenChat(u, roomId) ==
    /\ view[u].pc \in {"none", "ready"}
    /\ roomId \in RoomIds
    /\ view' = [view EXCEPT ![u] =
                  [NoView EXCEPT !.pc = "loading",
                                 !.roomId = roomId,
                                 !.messages = IF SameComponent(u, roomId)
                                                 THEN view[u].messages ELSE << >>,
                                 !.mounted = IF SameComponent(u, roomId)
                                                THEN view[u].mounted \cup {roomId}
                                                ELSE {roomId}]]
    /\ subs' = [subs EXCEPT ![u] = @ \cup {roomId}]
    /\ UNCHANGED <<roomVars, hm, membershipOps, chatStore, inbox>>
    /\ UNCHANGED <<formVars, cc, deleted, om, roomUpdates>>

\* loadMessages: the select is answered by the store
LM_Query(u) ==
    /\ view[u].pc = "loading"
    /\ \E error \in BOOLEAN :
         LET data == SelectMessages(u, view[u].roomId)
             denied == /\ ~is_open_or_campus_room(view[u].roomId)
                       /\ ~user_can_access_chat_room(u, view[u].roomId)
         IN  IF error
                THEN view' = [view EXCEPT ![u].pc = "ready",
                                          ![u].toast = "Error loading messages"]
                ELSE view' = [view EXCEPT ![u].pc = "response",
                                          ![u].data = data,
                                          ![u].denied = denied]
    /\ UNCHANGED <<roomVars, hm, membershipOps, chatStore, subs, inbox>>
    /\ UNCHANGED <<formVars, cc, deleted, om, roomUpdates>>

\* loadMessages: the await returns; setMessages(data) and the filter
LM_Response(u) ==
    /\ view[u].pc = "response"
    /\ LET data == view[u].data
           unread == Unread(data, u)
       IN  view' = [view EXCEPT
                      ![u].pc = IF unread = << >> THEN "ready" ELSE "marking",
                      ![u].messages = data,
                      ![u].data = << >>,
                      ![u].unread = unread,
                      ![u].loaded = {data[i].id : i \in 1..Len(data)}]
    /\ UNCHANGED <<roomVars, hm, membershipOps, chatStore, subs, inbox>>
    /\ UNCHANGED <<formVars, cc, deleted, om, roomUpdates>>

\* one iteration of: for (const msg of unreadMessages) await insert(...)
LM_Mark(u) ==
    /\ view[u].pc = "marking"
    /\ message_reads' = ReadsAfterInsert(u, Head(view[u].unread), u)
    /\ view' = [view EXCEPT ![u].unread = Tail(@),
                            ![u].pc = IF Tail(view[u].unread) = << >>
                                         THEN "ready" ELSE "marking",
                            ![u].dupe = @ \/ BagIn(<<Head(view[u].unread), u>>,
                                                   message_reads)]
    /\ UNCHANGED <<roomVars, hm, membershipOps, messages, nextMessageId, subs, inbox>>
    /\ UNCHANGED <<formVars, cc, deleted, om, roomUpdates>>

\* the messages INSERT handler of subscribeToMessages, for the event of row id
RT_Insert(u, id) ==
    /\ id \in inbox[u]
    /\ inbox' = [inbox EXCEPT ![u] = @ \ {id}]
    /\ IF id \in MessageIds /\ UsersCanViewMessages(u, MessageRow(id).chat_room_id)
          THEN LET newMsg == Annotated(u, id) IN
               \* setMessages of a component no longer mounted changes no list
               /\ view' = [view EXCEPT ![u].messages =
                                          IF MessageRow(id).chat_room_id \in view[u].mounted
                                             THEN Append(@, newMsg) ELSE @,
                                       ![u].dupe = @ \/ (newMsg.sender_id # u /\
                                                         BagIn(<<id, u>>, message_reads))]
               /\ message_reads' = IF newMsg.sender_id # u
                                      THEN ReadsAfterInsert(u, id, u)
                                      ELSE message_reads
          ELSE UNCHANGED <<view, message_reads>>
    /\ UNCHANGED <<roomVars, hm, membershipOps, messages, nextMessageId, subs>>
    /\ UNCHANGED <<formVars, cc, deleted, om, roomUpdates>>

(* ------------------------------ CampusChat --------------------------- *)
\* insert into chat_rooms (type, created_by) issued by uid, without the client
CreateChatRoomRow(uid, type, created_by) ==
    /\ Len(chat_rooms) < MaxRooms
    /\ UsersCanCreateChatRooms(uid, created_by)
    /\ chat_rooms_type_check(type)
    /\ chat_rooms' = Append(chat_rooms, [type |-> type, created_by |-> created_by])
    /\ UNCHANGED <<chat_participants, connections, hm, membershipOps>>
    /\ UNCHANGED <<chatStore, chatClient, formVars, cc, deleted, om, roomUpdates>>

\* update chat_rooms set type = type where id = id, issued by uid: the row is
\* changed if an UPDATE policy passes on it and the new row meets the CHECK
UpdateChatRoomRow(uid, id, type) ==
    /\ id \in RoomIds
    /\ Cardinality(roomUpdates) < MaxRoomUpdates
    /\ roomUpdates' = roomUpdates \cup {[uid |-> uid, id |-> id, type |-> type]}
    /\ IF UsersCanUpdateChatRooms(uid, id) /\ chat_rooms_type_check(type)
          THEN chat_rooms' = [chat_rooms EXCEPT ![id].type = type]
          ELSE UNCHANGED chat_rooms
    /\ UNCHANGED <<chat_participants, connections, hm, membershipOps>>
    /\ UNCHANGED <<chatStore, chatClient, formVars, cc, deleted, om>>

\* from chat_rooms select id where type = 'campus', as uid
SelectCampusRooms(uid) ==
    {id \in RoomIds : /\ chat_rooms[id].type = "campus"
                      /\ UsersCanViewAccessibleChatRooms(uid, id)}

\* CampusChat is shown: init calls initializeCampusChat(user.id)
IC_Start(u) ==
    /\ cc[u].pc \in {"idle", "done"}
    /\ cc' = [cc EXCEPT ![u] = [CcIdle EXCEPT !.pc = "room"]]
    /\ UNCHANGED <<roomVars, hm, membershipOps, chatStore, chatClient>>
    /\ UNCHANGED <<formVars, deleted, om, roomUpdates>>

\* the campus room query: maybeSingle() gives the row if there is exactly
\* one, null if there is none, and an error (data null) if there are several
IC_Room(u) ==
    /\ cc[u].pc = "room"
    /\ \E ok \in BOOLEAN :
         LET rows == SelectCampusRooms(u) IN
         IF ok /\ Cardinality(rows) = 1
            THEN LET existingRoom == CHOOSE id \in rows : TRUE IN
                 cc' = [cc EXCEPT ![u].pc = "participant",
                                  ![u].existingRoom = existingRoom,
                                  ![u].campusRoomId = existingRoom]
            ELSE cc' = [cc EXCEPT ![u].pc = "done", ![u].fault = ~ok]
    /\ UNCHANGED <<roomVars, hm, membershipOps, chatStore, chatClient>>
    /\ UNCHANGED <<formVars, deleted, om, roomUpdates>>

\* the participant query of the caller in the campus room
IC_Participant(u) ==
    /\ cc[u].pc = "participant"
    /\ \E ok \in BOOLEAN :
         LET participant == ok /\ u \in SelectParticipants(u, cc[u].existingRoom) IN
         cc' = [cc EXCEPT ![u].pc = IF participant THEN "done" ELSE "insert",
                          ![u].fault = @ \/ ~ok]
    /\ UNCHANGED <<roomVars, hm, membershipOps, chatStore, chatClient>>
    /\ UNCHANGED <<formVars, deleted, om, roomUpdates>>

\* the participant insert; its result is not looked at
IC_Insert(u) ==
    /\ cc[u].pc = "insert"
    /\ \E ok \in BOOLEAN :
         /\ IF ok /\ ParticipantInsertAccepted(u, cc[u].existingRoom, u)
               THEN chat_participants' =
                       chat_participants \cup {<<cc[u].existingRoom, u>>}
               ELSE UNCHANGED chat_participants
         /\ cc' = [cc EXCEPT ![u].pc = "done", ![u].fault = @ \/ ~ok]
    /\ UNCHANGED <<chat_rooms, connections, hm, membershipOps, chatStore, chatClient>>
    /\ UNCHANGED <<formVars, deleted, om, roomUpdates>>

(* ---------------------------- DirectMessages ------------------------- *)
\* the rooms loadChatRooms of DirectMessages lists for userId: direct rooms
\* of the user's participant rows that have another participant
DirectChatRooms(userId) ==
    {r \in SelectOwnRooms(userId) :
        /\ chat_rooms[r].type = "direct"
        /\ SelectParticipants(userId, r) \ {userId} # {}}

(* ----------------------------- OpenMessages -------------------------- *)
\* what loadChatRooms can push for userId: an open room of the user's
\* participant rows, with one of its other participants
OpenRoomEntries(userId) ==
    {[id |-> r, otherUser |-> o] :
        <<r, o>> \in {x \in SelectOwnRooms(userId) \X Users :
                        /\ chat_rooms[x[1]].type = "open"
                        /\ x[2] \in SelectParticipants(userId, x[1]) \ {userId}}}

\* loadChatRooms: the error of the first query is not read, and without
\* data the list is left as it is; otherParticipants[0] is any of the others
OM_LoadChatRooms(u) ==
    /\ om[u].pc \in {"idle", "done"}
    /\ \E ok \in BOOLEAN :
         IF ok
            THEN \E rooms \in SUBSET OpenRoomEntries(u) :
                   /\ \A e \in OpenRoomEntries(u) :
                         Cardinality({x \in rooms : x.id = e.id}) = 1
                   /\ om' = [om EXCEPT ![u].chatRooms = rooms]
            ELSE om' = [om EXCEPT ![u].listFault = TRUE]
    /\ UNCHANGED <<roomVars, hm, membershipOps, chatStore, chatClient>>
    /\ UNCHANGED <<formVars, cc, deleted, roomUpdates>>

\* startChat up to its first await: the look into the list, or the insert sent
startChat(u, student) ==
    /\ om[u].pc \in {"idle", "done"}
    /\ student # u
    /\ LET existingRoom == {room \in om[u].chatRooms : room.otherUser = student} IN
       IF existingRoom # {}
          THEN \E room \in existingRoom :
                 om' = [om EXCEPT ![u].pc = "done", ![u].student = student,
                                  ![u].newRoom = 0, ![u].toast = NULL,
                                  ![u].fault = FALSE,
                                  ![u].selectedRoom = room.id]
          ELSE om' = [om EXCEPT ![u].pc = "room", ![u].student = student,
                                ![u].newRoom = 0, ![u].toast = NULL,
                                ![u].fault = FALSE]
    /\ UNCHANGED <<roomVars, hm, membershipOps, chatStore, chatClient>>
    /\ UNCHANGED <<formVars, cc, deleted, roomUpdates>>

\* the chat_rooms insert of startChat, type 'open'
OM_CreateRoom(u) ==
    /\ om[u].pc = "room"
    /\ \E ok \in BOOLEAN :
         IF /\ ok
            /\ Len(chat_rooms) < MaxRooms
            /\ UsersCanCreateChatRooms(u, u)
            /\ chat_rooms_type_check("open")
            THEN /\ chat_rooms' = Append(chat_rooms,
                                         [type |-> "open", created_by |-> u])
                 /\ om' = [om EXCEPT ![u].pc = "add",
                                     ![u].newRoom = Len(chat_rooms) + 1]
            ELSE /\ om' = [om EXCEPT ![u].pc = "done",
                                     ![u].toast = "Error creating chat",
                                     ![u].fault = @ \/ ~ok]
                 /\ UNCHANGED chat_rooms
    /\ UNCHANGED <<chat_participants, connections, hm, membershipOps>>
    /\ UNCHANGED <<chatStore, chatClient, formVars, cc, deleted, roomUpdates>>

\* the chat_participants insert of startChat, both rows in one statement
OM_AddParticipants(u) ==
    /\ om[u].pc = "add"
    /\ \E ok \in BOOLEAN :
         LET room == om[u].newRoom IN
         IF /\ ok
            /\ ParticipantInsertAccepted(u, room, u)
            /\ ParticipantInsertAccepted(u, room, om[u].student)
            THEN /\ chat_participants' = chat_participants \cup
                                           {<<room, u>>, <<room, om[u].student>>}
                 /\ om' = [om EXCEPT ![u].pc = "done",
                                     ![u].selectedRoom = room,
                                     ![u].chatRooms = @ \cup
                                        {[id |-> room, otherUser |-> om[u].student]}]
            ELSE /\ om' = [om EXCEPT ![u].pc = "done",
                                     ![u].toast = "Error adding participants",
                                     ![u].fault = @ \/ ~ok]
                 /\ UNCHANGED chat_participants
    /\ UNCHANGED <<chat_rooms, connections, hm, membershipOps>>
    /\ UNCHANGED <<chatStore, chatClient, formVars, cc, deleted, roomUpdates>>

(* ------------------- ChatInterface: typing and sending ---------------- *)
\* storage.objects policy "Users can upload chat files": the first folder of
\* the object name is the uploader
UsersCanUploadChatFiles(uid, name) == name[1] = uid

\* storage.objects policy "Users can access chat files from their rooms": a
\* message whose file_url contains the object name, in a room uid participates in
UsersCanAccessChatFiles(uid, name) ==
    \E m \in messages :
        /\ m.file_url = name
        /\ <<m.chat_room_id, uid>> \in chat_participants

\* mutant: the limit taken as exclusive
messageSchema_Exclusive(content) == content.len < MAX_MESSAGE_LENGTH

\* messageSchema.safeParse({ content }).success
messageSchema(content) == content.len <= MAX_MESSAGE_LENGTH

\* `${currentUserId}/${Math.random()}.${fileExt}`: a name not used before
filePath(u) == <<u, Cardinality(storage) + 1>>

\* content: newMessage || (file ? `Shared a file: ${file.name}` : '')
MessageContent(newMessage, file) ==
    IF newMessage.len # 0 THEN newMessage
    ELSE IF file # NoFile THEN [len |-> 15, blank |-> FALSE]
    ELSE NoText

\* the file input's onChange, and the Remove button
setFile(u, file) ==
    /\ view[u].pc # "none"
    /\ file \in DraftFiles \cup {NoFile}
    /\ draft' = [draft EXCEPT ![u].file = file, ![u].calls = {}]
    /\ UNCHANGED <<roomVars, hm, membershipOps, chatStore, chatClient>>
    /\ UNCHANGED <<sends, storage, typingVars>>
    /\ UNCHANGED <<cc, deleted, om, roomUpdates>>

\* the text input's onChange: setNewMessage(e.target.value); handleTyping()
onChange(u, text) ==
    /\ view[u].pc # "none"
    /\ text \in DraftTexts
    /\ ht[u].awaiting + ht[u].tracked < MaxTyping
    /\ draft' = [draft EXCEPT ![u].newMessage = text, ![u].calls = {}]
    /\ ht' = [ht EXCEPT ![u].awaiting = @ + 1]
    /\ UNCHANGED <<roomVars, hm, membershipOps, chatStore, chatClient>>
    /\ UNCHANGED <<sends, storage, presence, typingTimeoutRef>>
    /\ UNCHANGED <<cc, deleted, om, roomUpdates>>

\* handleTyping up to and with channel.track({ typing: true })
HT_Track(u) ==
    /\ ht[u].awaiting > 0
    /\ presence' = [presence EXCEPT ![u] = TRUE]
    /\ ht' = [ht EXCEPT ![u].awaiting = @ - 1, ![u].tracked = @ + 1]
    /\ UNCHANGED <<roomVars, hm, membershipOps, chatStore, chatClient>>
    /\ UNCHANGED <<sendVars, typingTimeoutRef>>
    /\ UNCHANGED <<cc, deleted, om, roomUpdates>>

\* handleTyping after the track: clearTimeout, setTimeout(..., 2000)
HT_SetTimeout(u) ==
    /\ ht[u].tracked > 0
    /\ typingTimeoutRef' = [typingTimeoutRef EXCEPT ![u] = TRUE]
    /\ ht' = [ht EXCEPT ![u].tracked = @ - 1]
    /\ UNCHANGED <<roomVars, hm, membershipOps, chatStore, chatClient>>
    /\ UNCHANGED <<sendVars, presence>>
    /\ UNCHANGED <<cc, deleted, om, roomUpdates>>

\* the timer of handleTyping fires: channel.track({ typing: false })
TypingTimeout(u) ==
    /\ typingTimeoutRef[u]
    /\ presence' = [presence EXCEPT ![u] = FALSE]
    /\ typingTimeoutRef' = [typingTimeoutRef EXCEPT ![u] = FALSE]
    /\ UNCHANGED <<roomVars, hm, membershipOps, chatStore, chatClient>>
    /\ UNCHANGED <<sendVars, ht>>
    /\ UNCHANGED <<cc, deleted, om, roomUpdates>>

\* handleSend up to its first await: the empty test and the validations.
\* result is the title of the toast, "returned" for the return without one.
handleSend(u) ==
    /\ view[u].pc # "none"
    /\ Len(sends[u]) < MaxSends
    /\ LET newMessage == draft[u].newMessage
           file == draft[u].file
           call == [pc |-> "done", roomId |-> view[u].roomId,
                    newMessage |-> newMessage, file |-> file,
                    filePath |-> NoObject, fileUrl |-> NoObject,
                    same |-> draft[u].calls,
                    fault |-> FALSE, result |-> NULL]
           next ==
               IF newMessage.blank /\ file = NoFile
                  THEN [call EXCEPT !.result = "returned"]
               ELSE IF ~messageSchema(newMessage)
                  THEN [call EXCEPT !.result = "Invalid message"]
               ELSE IF file # NoFile /\ file.type \notin ALLOWED_FILE_TYPES
                  THEN [call EXCEPT !.result = "Invalid file type"]
               ELSE IF file # NoFile /\ file.size > MAX_FILE_SIZE
                  THEN [call EXCEPT !.result = "File too large"]
               ELSE [call EXCEPT !.pc = IF file # NoFile THEN "upload" ELSE "insert"]
       IN  sends' = [sends EXCEPT ![u] = Append(@, next)]
    /\ draft' = [draft EXCEPT ![u].calls = @ \cup {Len(sends[u]) + 1}]
    /\ UNCHANGED <<roomVars, hm, membershipOps, chatStore, chatClient>>
    /\ UNCHANGED <<storage, typingVars>>
    /\ UNCHANGED <<cc, deleted, om, roomUpdates>>

\* supabase.storage.from('chat-attachments').upload(filePath, file)
HS_Upload(u, i) ==
    /\ i \in DOMAIN sends[u]
    /\ sends[u][i].pc = "upload"
    /\ \E ok \in BOOLEAN :
         IF ok /\ UsersCanUploadChatFiles(u, filePath(u))
            THEN /\ storage' = storage \cup {filePath(u)}
                 /\ sends' = [sends EXCEPT ![u][i].pc = "sign",
                                           ![u][i].filePath = filePath(u)]
            ELSE /\ sends' = [sends EXCEPT ![u][i].pc = "done",
                                           ![u][i].result = "Upload failed",
                                           ![u][i].fault = ~ok]
                 /\ UNCHANGED storage
    /\ UNCHANGED <<roomVars, hm, membershipOps, chatStore, chatClient>>
    /\ UNCHANGED <<draft, typingVars>>
    /\ UNCHANGED <<cc, deleted, om, roomUpdates>>

\* createSignedUrl(filePath, 3600): the service signs an object the caller
\* may select
HS_SignedUrl(u, i) ==
    /\ i \in DOMAIN sends[u]
    /\ sends[u][i].pc = "sign"
    /\ \E ok \in BOOLEAN :
         IF ok /\ UsersCanAccessChatFiles(u, sends[u][i].filePath)
            THEN sends' = [sends EXCEPT ![u][i].pc = "insert",
                                        ![u][i].fileUrl = sends[u][i].filePath]
            ELSE sends' = [sends EXCEPT ![u][i].pc = "done",
                                        ![u][i].result = "Failed to generate file URL",
                                        ![u][i].fault = ~ok]
    /\ UNCHANGED <<roomVars, hm, membershipOps, chatStore, chatClient>>
    /\ UNCHANGED <<draft, storage, typingVars>>
    /\ UNCHANGED <<cc, deleted, om, roomUpdates>>

\* (variant) the form is cleared whatever the insert answers
AfterInsert_ClearsAlways(d, error) == NoDraft

\* if (error) toast ... else { setNewMessage(""); setFile(null); }
AfterInsert(d, error) == IF error THEN d ELSE NoDraft

\* the messages insert of handleSend and the two branches after it
HS_Insert(u, i) ==
    /\ i \in DOMAIN sends[u]
    /\ sends[u][i].pc = "insert"
    /\ nextMessageId <= MaxMessages
    /\ \E ok \in BOOLEAN :
         LET call == sends[u][i] IN
         IF ok /\ UsersCanSendMessages(u, call.roomId, u)
            THEN /\ InsertMessage(u, call.roomId, u,
                                  MessageContent(call.newMessage, call.file),
                                  call.fileUrl)
                 /\ draft' = [draft EXCEPT ![u] = AfterInsert(draft[u], FALSE)]
                 /\ sends' = [sends EXCEPT ![u][i].pc = "done",
                                           ![u][i].result = "sent"]
            ELSE /\ sends' = [sends EXCEPT ![u][i].pc = "done",
                                           ![u][i].result = "Error sending message",
                                           ![u][i].fault = ~ok]
                 /\ draft' = [draft EXCEPT ![u] = AfterInsert(draft[u], TRUE)]
                 /\ UNCHANGED <<chatStore, inbox>>
    /\ UNCHANGED <<roomVars, hm, membershipOps, view, subs>>
    /\ UNCHANGED <<storage, typingVars>>
    /\ UNCHANGED <<cc, deleted, om, roomUpdates>>

(* --------------------------- specifications --------------------------- *)
\* rooms, connections and participants
Next ==
    \/ \E u, v \in Users : handleConnect(u, v)
    \/ \E u \in Users : \E c \in DOMAIN connections : handleAccept(u, c)
    \/ \E u \in Users : \E c \in DOMAIN connections : handleReject(u, c)
    \/ \E s, id \in Users : HM_Find(s, id)
    \/ \E s \in Users : HM_CreateRoom(s)
    \/ \E s \in Users : HM_AddParticipants(s)
    \/ \E u, v \in Users : \E r \in RoomIds :
          membershipOps < MaxMembershipOps /\ JoinChat(u, r, v)
    \/ \E u, v \in Users : \E r \in RoomIds :
          membershipOps < MaxMembershipOps /\ LeaveChat(u, r, v)

Spec == Init /\ [][Next]_vars

\* messages and receipts in the campus room and one direct room
ChatNext ==
    \/ \E u \in {"a"}, v \in {"b"} : handleConnect(u, v)
    \/ \E u \in Users : \E c \in DOMAIN connections :
          Len(chat_rooms) < MaxChatRooms /\ handleAccept(u, c)
    \/ \E u, v \in Users : \E r \in RoomIds :
          membershipOps < MaxChatMembershipOps /\ JoinChat(u, r, v)
    \/ \E u, v \in Users : \E r \in RoomIds :
          membershipOps < MaxChatMembershipOps /\ LeaveChat(u, r, v)
    \/ \E u \in RowWriters, v \in Users : \E r \in RoomIds : InsertMessageRow(u, r, v)
    \/ \E u \in Users : \E id \in MessageIds : DeleteMessage(u, id)
    \/ \E u \in Users : \E r \in RoomIds :
          /\ Cardinality({v \in Users : view[v].pc # "none"} \cup {u}) <= MaxViewers
          /\ OpenChat(u, r)
    \/ \E u \in Users : LM_Query(u)
    \/ \E u \in Users : LM_Response(u)
    \/ \E u \in Users : LM_Mark(u)
    \/ \E u \in Users : \E id \in inbox[u] : RT_Insert(u, id)

ChatSpec == Init /\ [][ChatNext]_vars

\* DirectMessages with the rooms of its list: the viewer goes from one
\* direct room to another while messages are written to them
DirectNext ==
    \/ \E u, v \in Users : handleConnect(u, v)
    \/ \E u \in Users : \E c \in DOMAIN connections :
          Len(chat_rooms) < MaxRooms /\ handleAccept(u, c)
    \/ \E u \in RowWriters : \E r \in RoomIds : InsertMessageRow(u, r, u)
    \/ \E u \in Users : \E r \in DirectChatRooms(u) :
          /\ Cardinality({v \in Users : view[v].pc # "none"} \cup {u}) <= MaxViewers
          /\ OpenChat(u, r)
    \/ \E u \in Users : LM_Query(u)
    \/ \E u \in Users : LM_Response(u)
    \/ \E u \in Users : LM_Mark(u)
    \/ \E u \in Users : \E id \in inbox[u] : RT_Insert(u, id)

DirectSpec == Init /\ [][DirectNext]_vars

\* the three ways a receipt row is written, in the campus room
ReceiptNext ==
    \/ \E u \in Users : \E r \in RoomIds : InsertMessageRow(u, r, u)
    \/ \E u, v \in Users : \E id \in MessageIds : MarkReadRow(u, id, v)
    \/ \E u \in Users : \E r \in RoomIds :
          /\ Cardinality({v \in Users : view[v].pc # "none"} \cup {u}) <= MaxViewers
          /\ OpenChat(u, r)
    \/ \E u \in Users : LM_Query(u)
    \/ \E u \in Users : LM_Response(u)
    \/ \E u \in Users : LM_Mark(u)
    \/ \E u \in Users : \E id \in inbox[u] : RT_Insert(u, id)

ReceiptSpec == Init /\ [][ReceiptNext]_vars

\* one user typing and sending in the campus room
FormNext ==
    \/ \E u \in FormUsers : \E r \in RoomIds : OpenChat(u, r)
    \/ \E u \in FormUsers : \E file \in DraftFiles \cup {NoFile} : setFile(u, file)
    \/ \E u \in FormUsers : \E text \in DraftTexts : onChange(u, text)
    \/ \E u \in FormUsers : HT_Track(u)
    \/ \E u \in FormUsers : HT_SetTimeout(u)
    \/ \E u \in FormUsers : TypingTimeout(u)
    \/ \E u \in FormUsers : handleSend(u)
    \/ \E u \in FormUsers : \E i \in DOMAIN sends[u] : HS_Upload(u, i)
    \/ \E u \in FormUsers : \E i \in DOMAIN sends[u] : HS_SignedUrl(u, i)
    \/ \E u \in FormUsers : \E i \in DOMAIN sends[u] : HS_Insert(u, i)

FormSpec == Init /\ [][FormNext]_vars

\* CampusChat opened by every user, with rooms and participant rows written
\* beside it
CampusNext ==
    \/ \E u \in Users : IC_Start(u)
    \/ \E u \in Users : IC_Room(u)
    \/ \E u \in Users : IC_Participant(u)
    \/ \E u \in Users : IC_Insert(u)
    \/ \E u \in RowWriters, v \in Users : \E type \in {"campus", "direct", "open"} :
          CreateChatRoomRow(u, type, v)
    \/ \E u \in Users : \E r \in RoomIds :
          membershipOps < MaxMembershipOps /\ LeaveChat(u, r, u)

CampusSpec == Init /\ [][CampusNext]_vars

\* the requests of every user that write chat_rooms rows, and the accept
\* trigger that writes them
RoomRowNext ==
    \/ \E u, v \in Users : handleConnect(u, v)
    \/ \E u \in Users : \E c \in DOMAIN connections :
          Len(chat_rooms) < MaxRooms /\ handleAccept(u, c)
    \/ \E u, v \in Users : \E type \in {"campus", "direct", "open"} :
          CreateChatRoomRow(u, type, v)
    \/ \E u \in Users : \E r \in RoomIds : \E type \in {"campus", "direct", "open"} :
          UpdateChatRoomRow(u, r, type)

RoomRowSpec == Init /\ [][RoomRowNext]_vars

\* the OpenMessages page of every user, with messages written to the rooms
\* there are.  OM_AddParticipants is no disjunct: no startChat gets past its
\* chat_rooms insert (C21_StartChatStopsAtRoom)
OpenNext ==
    \/ \E u \in Users : OM_LoadChatRooms(u)
    \/ \E u, student \in Users : startChat(u, student)
    \/ \E u \in Users : OM_CreateRoom(u)
    \/ \E u \in RowWriters, v \in Users : \E type \in {"campus", "direct", "open"} :
          CreateChatRoomRow(u, type, v)
    \/ \E u \in RowWriters, v \in Users : \E r \in RoomIds : InsertMessageRow(u, r, v)

OpenSpec == Init /\ [][OpenNext]_vars

(* ------------------------------- claims ------------------------------- *)
RoomType(room) == chat_rooms[room].type

\* the step in which the select of loadMessages of u is answered with rows
LoadReturns(u) ==
    /\ view[u].pc = "loading"
    /\ view'[u].pc = "response"

ShownIds(v) == {v.messages[i].id : i \in DOMAIN v.messages}

\* C1: a message row is inserted only with the inserting user as sender_id,
\* and into a direct room only by a user who has a participant row there at
\* the insert; a message of a direct room is handed to a user's message list
\* only if that user has a participant row of the room at the read.
C1_DirectRoomAccess ==
    [][ /\ \A m \in messages' \ messages :
             /\ m.uid = m.sender_id
             /\ RoomType(m.chat_room_id) = "direct"
                  => <<m.chat_room_id, m.uid>> \in chat_participants
        /\ \A u \in Users :
             \* the rows the select of loadMessages is answered with
             /\ LoadReturns(u) =>
                   \A i \in DOMAIN view'[u].data :
                      LET id == view'[u].data[i].id IN
                      /\ id \in MessageIds
                      /\ RoomType(MessageRow(id).chat_room_id) = "direct"
                            => <<MessageRow(id).chat_room_id, u>> \in chat_participants
             \* the list shows these rows and no others
             /\ (view[u].pc = "response" /\ view'[u].pc # "response")
                   => view'[u].messages = view[u].data
             \* the rows the realtime handler fetches
             /\ ~(view[u].pc = "response" /\ view'[u].pc # "response") =>
                   \A id \in ShownIds(view'[u]) \ ShownIds(view[u]) :
                      /\ id \in MessageIds
                      /\ RoomType(MessageRow(id).chat_room_id) = "direct"
                            => <<MessageRow(id).chat_room_id, u>> \in chat_participants
      ]_vars

\* C1 witness: a message of a direct room has been inserted and has been read
\* into the message list of a user other than its sender.
C1_Witness ==
    \E m \in messages : \E u \in Users :
        /\ RoomType(m.chat_room_id) = "direct"
        /\ m.id \in ShownIds(view[u])
        /\ m.sender_id # u

\* C2 (as claimed): loadMessages on a direct room, run as a user without a
\* participant row, ends with an error shown to that user.
C2_OutsiderListFails ==
    \A u \in Users :
        (view[u].pc \in {"marking", "ready"} /\ view[u].denied)
            => view[u].toast = "Error loading messages"

\* C3: every message of a campus or open room is in the result of the
\* loadMessages query of every user, participant or not.
C3_CampusOpenListed ==
    \A m \in messages :
        RoomType(m.chat_room_id) \in {"campus", "open"}
            => \A u \in Users :
                 LET data == SelectMessages(u, m.chat_room_id)
                 IN  \E i \in DOMAIN data : data[i].id = m.id

\* C3 witness: a user without a participant row in the campus room has
\* loaded a message of it that another user sent.
C3_Witness ==
    \E m \in messages : \E u \in Users :
        /\ RoomType(m.chat_room_id) = "campus"
        /\ <<m.chat_room_id, u>> \notin chat_participants
        /\ view[u].roomId = m.chat_room_id
        /\ m.id \in view[u].loaded
        /\ m.sender_id # u

C6_DirectRoomHasTwo ==
    \A room \in RoomIds :
        RoomType(room) = "direct" => Cardinality(Participants(room)) = 2

\* C7: an update of a connection from pending to accepted adds exactly one
\* room, of type direct, whose participants are the requester and the
\* receiver, in the step of the update; an update to rejected and an update
\* of an accepted row to accepted add no room and no participant.
C7_AcceptCreatesOneRoom ==
    [][ \A c \in DOMAIN connections :
          LET old == connections[c]
              new == connections'[c]
              room == Len(chat_rooms) + 1
          IN  new.updated_at # old.updated_at =>
                /\ (old.status = "pending" /\ new.status = "accepted") =>
                      /\ chat_rooms' = Append(chat_rooms,
                                              [type |-> "direct", created_by |-> c[1]])
                      /\ chat_participants' =
                            chat_participants \cup {<<room, c[1]>>, <<room, c[2]>>}
                /\ (new.status = "rejected"
                      \/ (old.status = "accepted" /\ new.status = "accepted")) =>
                      /\ chat_rooms' = chat_rooms
                      /\ chat_participants' = chat_participants
      ]_vars

\* C7 witness: a pending connection was accepted by its one update, and the
\* store holds, beside the campus room, one direct room of its requester and
\* receiver.
C7_Witness ==
    \E c \in DOMAIN connections :
        /\ connections[c].status = "accepted"
        /\ connections[c].updated_at = 1
        /\ Cardinality({room \in RoomIds : /\ RoomType(room) = "direct"
                                           /\ Participants(room) = {c[1], c[2]}}) = 1
        /\ Len(chat_rooms) = 2

\* C8: no receipt row is stored twice, and a receipt insert that finds the
\* row already there changes neither the table nor the toast of the view.
C8_MarkReadIdempotent ==
    [][ /\ \A r \in BagToSet(message_reads') : CopiesIn(r, message_reads') = 1
        /\ \A u \in Users :
             (view'[u].dupe /\ ~view[u].dupe)
                => /\ message_reads' = message_reads
                   /\ view'[u].toast = view[u].toast
      ]_vars

\* C8 witness: a view has inserted a receipt that was already stored, and the
\* message has the one receipt of that user.
C8_Witness ==
    \E u \in Users : \E m \in messages :
        /\ view[u].dupe
        /\ view[u].toast = NULL
        /\ CopiesIn(<<m.id, u>>, message_reads) = 1

C10_ListThenMarked ==
    [][ \A B \in Users :
          LET R == view[B].roomId IN
          (R \in RoomIds /\ RoomType(R) = "direct") =>
            /\ (LoadReturns(B) /\ <<R, B>> \in chat_participants) =>
                  \A m \in messages :
                     (/\ m.chat_room_id = R
                      /\ m.sender_id # B
                      /\ ~BagIn(<<m.id, B>>, message_reads))
                        => \E i \in DOMAIN view'[B].data :
                                 /\ view'[B].data[i].id = m.id
                                 /\ B \notin view'[B].data[i].reads
            /\ (view[B].pc = "response" /\ view'[B].pc # "response") =>
                  /\ view'[B].messages = view[B].data
                  /\ \A i \in DOMAIN view[B].data :
                        (/\ view[B].data[i].sender_id # B
                         /\ B \notin view[B].data[i].reads)
                           => \E j \in DOMAIN view'[B].unread :
                                 view'[B].unread[j] = view[B].data[i].id
            /\ (view[B].pc = "marking" /\ view'[B].pc = "ready") =>
                  \A id \in view'[B].loaded \cap {m.id : m \in messages'} :
                     (\E m \in messages' : m.id = id /\ m.sender_id # B)
                        => BagIn(<<id, B>>, message_reads')
      ]_vars

\* C10 witness: B has listed a direct room holding a message A sent before B
\* opened the room; the list gave the message without B's receipt, nothing
\* came through the realtime handler, and B's receipt is now stored.
C10_Witness ==
    \E B \in Users : \E m \in messages :
        /\ RoomType(m.chat_room_id) = "direct"
        /\ Participants(m.chat_room_id) = {m.sender_id, B}
        /\ m.sender_id # B
        /\ view[B].roomId = m.chat_room_id
        /\ view[B].pc = "ready"
        /\ m.id \in view[B].loaded
        /\ view[B].messages = << [id |-> m.id, sender_id |-> m.sender_id, reads |-> {}] >>
        /\ ~view[B].dupe
        /\ BagIn(<<m.id, B>>, message_reads)

\* C11 (as claimed): no receipt row names the sender of its message as reader.
C11_NoReceiptForOwnMessage ==
    \A m \in messages : ~BagIn(<<m.id, m.sender_id>>, message_reads)

\* the calls of handleSend so far, as <<user, index>>
Calls == {c \in Users \X (1..MaxSends) : c[2] \in DOMAIN sends[c[1]]}

Call(c) == sends[c[1]][c[2]]

TooLong(call) == call.newMessage.len > MAX_MESSAGE_LENGTH

AllowedFile(file) ==
    file.type \in ALLOWED_FILE_TYPES /\ file.size <= MAX_FILE_SIZE

\* C13 (as claimed): a handleSend call that passes the text checks with a
\* file of a type outside the list, or of more than 10 MB, is rejected
\* before any upload; with a file of a listed type of at most 10 MB, and no
\* failure of the store or the storage service, it ends with a stored message
\* whose file_url names the uploaded object.
C13_AttachmentChecked ==
    \A c \in Calls :
        LET call == Call(c) IN
        (call.file # NoFile /\ messageSchema(call.newMessage)) =>
            /\ ~AllowedFile(call.file)
                 => /\ call.result \in {"Invalid file type", "File too large"}
                    /\ call.filePath = NoObject
            /\ (AllowedFile(call.file) /\ call.pc = "done" /\ ~call.fault)
                 => /\ call.result = "sent"
                    /\ call.filePath \in storage
                    /\ \E m \in messages : m.file_url = call.filePath

\* C18 (as claimed): at the step in which a message of u is sent, with no
\* handleTyping call of u still running, the typing flag u has published is false.
C18_SendStopsTyping ==
    [][ \A u \in Users :
          (/\ \E i \in DOMAIN sends[u] :
                 sends[u][i].result # "sent" /\ sends'[u][i].result = "sent"
           /\ ht[u] = [awaiting |-> 0, tracked |-> 0])
             => ~presence'[u]
      ]_vars

CampusRooms == {id \in RoomIds : chat_rooms[id].type = "campus"}

\* C19 (as claimed): when a call of initializeCampusChat by u ends with none
\* of its requests having failed, exactly one campus room exists, the call
\* has set campusRoomId to its id, and u has a participant row in it.
C19_CampusRoomObtained ==
    [][ \A u \in Users :
          (cc[u].pc # "done" /\ cc'[u].pc = "done" /\ ~cc'[u].fault)
             => /\ Cardinality({id \in DOMAIN chat_rooms' :
                                   chat_rooms'[id].type = "campus"}) = 1
                /\ cc'[u].campusRoomId # 0
                /\ chat_rooms'[cc'[u].campusRoomId].type = "campus"
                /\ <<cc'[u].campusRoomId, u>> \in chat_participants'
      ]_vars

\* C14: a messages row disappears only by a delete its sender issued, and
\* a receipt disappears only with its message; a delete issued by anyone else
\* changes no row.
C14_DeleteOnlyBySender ==
    [][ /\ \A m \in messages \ messages' :
             \E d \in deleted' \ deleted :
                 d.id = m.id /\ d.by = m.sender_id /\ d.sender_id = m.sender_id
        /\ \A d \in deleted' \ deleted : d.by = d.sender_id
        /\ \A r \in BagToSet(message_reads) :
             CopiesIn(r, message_reads') < CopiesIn(r, message_reads)
                 => \E m \in messages \ messages' : m.id = r[1]
      ]_vars

\* C14 witness: a message with a receipt of another participant was deleted
\* by its sender, and the receipt went with it.
C14_Witness ==
    \E d \in deleted :
        /\ d.by = d.sender_id
        /\ d.id \notin MessageIds
        /\ \A r \in BagToSet(message_reads) : r[1] # d.id
        /\ \E u \in d.reads : u # d.sender_id

\* C15 (as claimed): once loadMessages of a viewer of the campus room has
\* ended without an error and the viewer's handler has dealt with every event
\* it was sent, every stored message of the room is in the displayed list.
C15_InsertedIsDisplayed ==
    \A u \in Users :
        LET r == view[u].roomId IN
        (/\ view[u].pc = "ready"
         /\ view[u].toast = NULL
         /\ r \in RoomIds
         /\ RoomType(r) = "campus"
         /\ inbox[u] = {})
            => \A m \in messages :
                  m.chat_room_id = r => m.id \in ShownIds(view[u])

\* C16 (as claimed): in a viewer's displayed list, the stored messages of the
\* room on view stand in the order of their creation.
C16_DisplayedInCreationOrder ==
    \A u \in Users :
        LET shown == view[u].messages
            OfRoom(id) == /\ id \in MessageIds
                          /\ MessageRow(id).chat_room_id = view[u].roomId
        IN  \A i, j \in DOMAIN shown :
               (i < j /\ OfRoom(shown[i].id) /\ OfRoom(shown[j].id))
                  => shown[i].id <= shown[j].id

\* C17 (as claimed): the subscriptions a ChatInterface holds are those of
\* the room it shows, one messages channel at most.
C17_OneSubscription ==
    \A u \in Users : subs[u] \subseteq {view[u].roomId}

C21_StartChatCreatesOpenRoom ==
    [][ \A u \in Users :
          (om[u].pc = "room" /\ om'[u].pc = "done" /\ ~om'[u].fault)
             => \E r \in DOMAIN chat_rooms' :
                   /\ chat_rooms'[r].type = "open"
                   /\ chat_rooms'[r].created_by = u
                   /\ {<<r, u>>, <<r, om'[u].student>>} \subseteq chat_participants'
                   /\ om'[u].selectedRoom = r
      ]_vars

\* no startChat reaches its participant insert, and no room has type open
C21_StartChatStopsAtRoom ==
    /\ \A u \in Users : om[u].pc # "add"
    /\ \A r \in RoomIds : chat_rooms[r].type # "open"

\* C22: no step changes the type of a chat_rooms row or removes the row,
\* whoever issues an update, the room's creator included.
C22_RoomTypeImmutable ==
    [][ \A id \in DOMAIN chat_rooms :
           /\ id \in DOMAIN chat_rooms'
           /\ chat_rooms'[id].type = chat_rooms[id].type
      ]_vars

\* C22 witness: the creator of a direct room has issued an update of its
\* type to campus, and the row is as it was.
C22_Witness ==
    \E x \in roomUpdates :
        /\ chat_rooms[x.id].created_by = x.uid
        /\ chat_rooms[x.id].type = "direct"
        /\ x.type = "campus"

\* C23 (as claimed): when the lookup of handleMessage of s for id stops at a
\* room, that room has type direct and its participants are exactly s and id.
C23_FindReturnsDirectRoomOfPair ==
    [][ \A s \in Users :
          (/\ hm[s].pc \in {"idle", "done"}
           /\ hm'[s] # hm[s]
           /\ hm'[s].pc = "done")
             => /\ RoomType(hm'[s].navigated) = "direct"
                /\ Participants(hm'[s].navigated) = {s, hm'[s].id}
      ]_vars

\* C24: a handleMessage whose participant insert failed after its room was
\* created has not navigated; and a direct room without participant rows is
\* in no user's conversation list and is no result of any user's lookup.
C24_OrphanRoomInert ==
    /\ \A s \in Users :
          (hm[s].pc = "done" /\ hm[s].toast = "Failed to add participants")
             => hm[s].navigated = 0
    /\ \A room \in RoomIds :
          (RoomType(room) = "direct" /\ Participants(room) = {})
             => /\ \A u \in Users : room \notin DirectChatRooms(u)
                /\ \A u, id \in Users : room \notin findDirectRoom(u, id)

\* C24 witness: the participant insert of s failed and left its room without
\* rows; a later lookup of the other user has passed over that room.
C24_Witness ==
    \E s, u \in Users :
        /\ s # u
        /\ hm[s].pc = "done"
        /\ hm[s].toast = "Failed to add participants"
        /\ hm[s].newRoom \in RoomIds
        /\ Participants(hm[s].newRoom) = {}
        /\ hm[u].pc \in {"create", "add", "done"}
        /\ hm[u].id = s
        /\ hm[u].seen >= hm[s].newRoom

\* C25 (as claimed): a user whose initializeCampusChat had a failed request
\* (room lookup, participant lookup or participant insert) is shown a
\* notification.
C25_FailureNotified ==
    \A u \in Users : cc[u].fault => cc[u].toast # NULL

\* C26 (as claimed): every stored message in a viewer's displayed list is a
\* message of the room the ChatInterface shows.
C26_DisplayedBelongToRoom ==
    \A u \in Users :
        \A id \in ShownIds(view[u]) \cap MessageIds :
            MessageRow(id).chat_room_id = view[u].roomId

\* C27 (as claimed): no message id stands twice in a viewer's displayed list.
C27_NoDuplicateDisplayed ==
    \A u \in Users :
        \A i, j \in DOMAIN view[u].messages :
            view[u].messages[i].id = view[u].messages[j].id => i = j

\* C28 (as claimed): for every two users there is at most one direct room
\* whose participants are exactly the two.
C28_OneDirectRoomPerPair ==
    \A u, v \in Users :
        u # v => Cardinality({room \in RoomIds :
                                 /\ RoomType(room) = "direct"
                                 /\ Participants(room) = {u, v}}) <= 1

\* C29 (as claimed): of the handleSend calls made on one unchanged draft, at
\* most one ends with a message persisted.
C29_OneMessagePerDraft ==
    \A u \in Users :
        \A i, j \in DOMAIN sends[u] :
            (i \in sends[u][j].same /\ sends[u][i].result = "sent")
                => sends[u][j].result # "sent"

\* the outcomes of handleSend that are a rejection or a failure
SendFailures ==
    {"Invalid message", "Invalid file type", "File too large",
     "Upload failed", "Failed to generate file URL", "Error sending message"}

\* the result of call i of a user's handleSend calls, NULL before it has one
SendResult(calls, i) == IF i \in DOMAIN calls THEN calls[i].result ELSE NULL

\* C30: a step in which a handleSend call ends rejected or failed leaves the
\* draft text, the selected file and the messages table as they were; and
\* handleSend changes the text or the file only in the step in which its
\* insert has succeeded and the row is in the table.
C30_FailureKeepsDraft ==
    [][\A u \in Users :
          /\ (\E i \in DOMAIN sends'[u] :
                 /\ SendResult(sends'[u], i) \in SendFailures
                 /\ SendResult(sends[u], i) = NULL)
                => /\ draft'[u].newMessage = draft[u].newMessage
                   /\ draft'[u].file = draft[u].file
                   /\ messages' = messages
          /\ (/\ sends'[u] # sends[u]
              /\ \/ draft'[u].newMessage # draft[u].newMessage
                 \/ draft'[u].file # draft[u].file)
                => /\ draft'[u].newMessage = NoText
                   /\ draft'[u].file = NoFile
                   /\ \E i \in DOMAIN sends[u] :
                        /\ sends[u][i].result = NULL
                        /\ sends'[u][i].result = "sent"
                        /\ \E m \in messages' \ messages :
                             /\ m.sender_id = u
                             /\ m.chat_room_id = sends[u][i].roomId]_vars

\* the insert of a call has failed and the draft it was made on is still in
\* the form, with nothing persisted
C30_Witness ==
    \E u \in Users : \E i \in DOMAIN sends[u] :
        /\ sends[u][i].result = "Error sending message"
        /\ i \in draft[u].calls
        /\ draft[u].newMessage = sends[u][i].newMessage
        /\ ~draft[u].newMessage.blank
        /\ draft[u].file = sends[u][i].file
        /\ messages = {}
====
